---- MODULE Spec2Model ----
(***************************************************************************)
(* The inference-serving layer of docker_cellar:                           *)
(*   3-ML_Pipeline/api/src/main.py   (FastAPI handlers, Redis cache)       *)
(*   3-ML_Pipeline/api/src/utils.py  (ModelManager, MetricsCollector,      *)
(*                                    validate_input_data)                 *)
(*   3-ML_Pipeline/api/src/models.py (PredictionRequest)                   *)
(*   4-ONNX_Server/app/main.py       (ONNX server, module-level globals)   *)
(*                                                                         *)
(* One coroutine step of the event loop is one action: a handler runs      *)
(* atomically from one `await` to the next.  The executor thread that runs *)
(* the inference lambda is a step of its own.                              *)
(*                                                                         *)
(* Specifications, all over the same variables:                            *)
(*   Spec         POST /predict and POST /models/reload of the ML API      *)
(*   BatchSpec    POST /predict/batch, with reloads                        *)
(*   InputSpec    POST /predict with empty and ragged inputs               *)
(*   TtlSpec      POST /predict with every cache_ttl, while time passes    *)
(*   OnnxSpec     the ONNX server                                          *)
(*   MetricsSpec  threads calling into one MetricsCollector                *)
(*   SerialMetricsSpec  calls into one MetricsCollector, one at a time     *)
(*   UnloadedSpec both servers answering without their startup hooks       *)
(*   WorkerSpec   cache keys computed in the worker processes              *)
(*   ValidateSpec the input validation functions on bounded inputs         *)
(***************************************************************************)
EXTENDS Integers, Sequences, FiniteSets, TLC

\* ------------------------------------------------------------- bounds
NumRequests == 2      \* request slots of the ML-pipeline API, each used once
MaxVersion  == 2      \* distinct model artifacts that can be deployed on disk
MaxReloads  == 1      \* calls of POST /models/reload (of POST /reload)
MaxAnswers  == 2      \* requests answered by the ONNX server
NumThreads  == 2      \* threads calling into one MetricsCollector, one call each
NumSeeds    == 2      \* values the interpreter can draw for its string-hash seed
MaxFingerprints == 2  \* cache keys computed, over all worker processes
MaxTicks    == 2      \* times the clock is seen to have advanced
MaxValidations == 2   \* inputs put to the validation functions
MaxRowLen   == 3      \* longest row put to the validation functions
MaxCalls    == 3      \* calls made one after another into one MetricsCollector
HashModulus == 1000003 \* range of hash(): 0 .. HashModulus - 1

Reqs     == 1..NumRequests
Threads  == 1..NumThreads
Seeds    == 1..NumSeeds
NumWorkers == 2       \* uvicorn.run(..., workers=2)
Workers  == 1..NumWorkers
Versions == 1..MaxVersion

\* ------------------------------------------------------------- values
None == 0                      \* Python None where a number may stand (falsy, like 0)
NoObject == "None"             \* Python None where an object reference may stand
NoKey == <<>>                  \* cache_key = None
NoTask == <<>>                 \* no background task queued
NoCall == <<>>                 \* the event loop thread is not inside a handler
NoResponse == [status |-> 0]
Missing == [absent |-> TRUE]   \* redis GET of a key that is not stored
DefaultTTL == 3600
MinTTL == 1                    \* cache_ttl: ge=1
MaxTTL == 86400                \* cache_ttl: le=86400

\* dict.get(key, default)
Get(d, k, default) == IF k \in DOMAIN d THEN d[k] ELSE default

\* Feature count the engine of artifact v declares for its input tensor.
Features(v) == IF v % 2 = 1 THEN 2 ELSE 3

RowLens == {2, 3}
Values  == {1}
\* request.data: a list of rows; here one row of 2 or 3 floats
Data == { <<row>> : row \in UNION { [1..n -> Values] : n \in RowLens } }
TTLs == {DefaultTTL}

\* What the pydantic model List[List[float]] admits besides Data: no rows, a
\* row without values, rows of different lengths.
AnyData == Data \cup { <<>>, << <<>> >>, << <<1, 1>>, <<1>> >> }

\* np.array(data, dtype=np.float32) raises ValueError unless all rows have
\* one length ...
Homogeneous(data) == \A i, j \in 1..Len(data) : Len(data[i]) = Len(data[j])

\* ... and otherwise has this shape: (0,) for [], else (rows, row length).
Shape(data) == IF data = <<>> THEN <<0>> ELSE <<Len(data), Len(data[1])>>

\* The exception that conversion and shape validation end with, "none" if
\* they pass (utils.py 127-136, 4-ONNX_Server/app/main.py 162-170):
\*   input_data = np.array(data, dtype=np.float32)
\*   if expected_features and input_data.shape[1] != expected_features: raise
InputError(data, expected_features) ==
    IF ~Homogeneous(data) THEN "inhomogeneous shape"
    ELSE IF expected_features = None THEN "none"
    ELSE IF Len(Shape(data)) < 2 THEN "tuple index out of range"
    ELSE IF Shape(data)[2] # expected_features THEN "Invalid input shape"
    ELSE "none"

\* The step of the handler an InputError belongs to.
InputErrorTag(e) ==
    IF e = "inhomogeneous shape" THEN "convert_error"
    ELSE IF e = "tuple index out of range" THEN "index_error"
    ELSE "shape_mismatch"

\* What load_models finds under models/ when it runs.
Disks == [model : {"missing", "corrupt", "ok"}, version : Versions,
          meta : {"ok", "absent", "unreadable"}]

\* At startup the artifact on disk is the first one deployed.
FirstDisks == { d \in Disks : d.version = 1 }

Stem == <<"stem", 0>>          \* model_path.stem: the file name, same for every version
Unknown == <<"unknown", 0>>
ModelName(v) == <<"model", v>> \* "model_name" written in the metadata document of v

\* metadata = {} ; the key "artifact" is a history key: the artifact whose
\* load produced the dict (0 for the dict of __init__).
EmptyMetadata == [artifact |-> None]
MetadataDocument(v) ==
    [artifact |-> v, model_name |-> ModelName(v), model_type |-> "classification",
     input_shape |-> <<None, Features(v)>>]
SynthesizedMetadata(v) ==
    [artifact |-> v, model_name |-> Stem, model_type |-> "unknown"]

VARIABLES
    phase,            \* "starting" | "serving" | "failed" (startup raised)
    model_manager,    \* None | "ModelManager"
    redis_client,     \* None | "Redis"
    session,          \* ModelManager.session: None or the artifact version loaded
    metadata,         \* ModelManager.metadata
    cache,            \* the Redis db: key -> Missing or an entry
    PREDICTION_COUNT, \* prometheus counter ml_api_predictions_total
    pc,               \* per request: idle, cache_get, executor, resume, done
    request,          \* per request: the PredictionRequest
    cache_key,        \* per request: local cache_key
    outputs,          \* per request: what the executor future holds
    response,         \* per request: what the caller got
    task,             \* per request: background task added to BackgroundTasks
    log,              \* per request: history of what the handler did, in order
    obs,              \* per request: history of which handle parts it read
    rpc,              \* reload_models: idle | flush
    reloads,          \* number of reload_models calls started
    rhist,            \* history of the last reload_models call
    rresponse,        \* what the last reload_models call returned
    \* 4-ONNX_Server/app/main.py
    ophase,           \* "starting" | "serving" | "failed"
    MODEL_SESSION,    \* None or the artifact version loaded
    MODEL_METADATA,
    answers,          \* history: the predict calls answered, in order
    oreloads,         \* number of reload_model calls
    ohist,            \* history: the handle when the last reload_model call started
    oresponse,        \* what the last reload_model call returned
    oloop,            \* the event loop thread: free, or the call whose engine run holds it
    \* predict_batch of 3-ML_Pipeline/api/src/main.py
    bpc,              \* predict_batch: idle | running | done
    batch,            \* the list of PredictionRequest it was called with
    results,          \* its local list `results`
    bresponse,        \* what predict_batch answered
    \* MetricsCollector of 3-ML_Pipeline/api/src/utils.py
    collector,        \* the object: prediction_times and the four counters
    tpc,              \* per thread: idle | load | store | done
    ttarget,          \* per thread: the method it called and the counter it adds to
    tlocal,           \* per thread: the counter value it read
    calls,            \* history: the calls entered so far, in order
    \* the worker processes uvicorn starts (main.py 311-318)
    hashseed,         \* per worker process: its string-hash seed, None before it starts
    fingerprints,     \* history: the cache keys computed, with worker and rows
    clock,            \* the Redis server's time in seconds, and how often it advanced
    validations       \* history: inputs put to the validation functions, with the results

vars == <<phase, model_manager, redis_client, session, metadata, cache,
          PREDICTION_COUNT, pc, request, cache_key, outputs, response, task,
          log, obs, rpc, reloads, rhist, rresponse,
          ophase, MODEL_SESSION, MODEL_METADATA, answers, oreloads, ohist, oresponse,
          oloop, bpc, batch, results, bresponse, collector, tpc, ttarget, tlocal, calls,
          hashseed, fingerprints, clock, validations>>

onnxVars == <<ophase, MODEL_SESSION, MODEL_METADATA, answers, oreloads, ohist,
              oresponse, oloop>>

batchVars == <<bpc, batch, results, bresponse>>

\* What the handlers of POST /predict, POST /models/reload and of the ONNX
\* server never touch.
collectorVars == <<collector, tpc, ttarget, tlocal, calls>>
workerVars == <<hashseed, fingerprints>>
sideVars == <<batchVars, collectorVars, workerVars, clock, validations>>

handleVars  == <<session, metadata>>
reloadVars  == <<rpc, reloads, rhist, rresponse>>
requestVars == <<pc, request, cache_key, outputs, response, task, log, obs>>
mlVars == <<phase, model_manager, redis_client, session, metadata, cache,
            PREDICTION_COUNT, requestVars, reloadVars>>

\* ------------------------------------------------------------- ModelManager

\* ModelManager.load_models: the handle and the exception it ends with.
load_models(sess, md, disk) ==
    IF disk.model = "missing"
    THEN [session |-> sess, metadata |-> md, error |-> "FileNotFoundError"]
    ELSE IF disk.model = "corrupt"
    THEN [session |-> sess, metadata |-> md, error |-> "InvalidGraph"]
    ELSE IF disk.meta = "unreadable"
    THEN [session |-> disk.version, metadata |-> md, error |-> "JSONDecodeError"]
    ELSE [session |-> disk.version,
          metadata |-> IF disk.meta = "ok" THEN MetadataDocument(disk.version)
                       ELSE SynthesizedMetadata(disk.version),
          error |-> "none"]

is_loaded == session # None
get_model_name == Get(metadata, "model_name", Unknown)

\* session.run: the engine's answer, or the exception it raises.
SessionRun(sess, data, fault) ==
    IF fault \/ sess = None \/ Len(Shape(data)) # 2
             \/ Shape(data)[Len(Shape(data))] # Features(sess)
    THEN [ok |-> FALSE, session |-> sess]
    ELSE [ok |-> TRUE, session |-> sess,
          predictions |-> [model |-> sess, input |-> data]]

\* ------------------------------------------------------------- cache layer

\* json.dumps(data, sort_keys=True) of a list of lists of floats, as the
\* sequence of its tokens: "[[1.0, 2.0], [3.0]]".  sort_keys orders the keys of
\* dicts; a list keeps its order.
Sym(c) == [sym |-> c]
Num(v) == [num |-> v]
RECURSIVE Join(_)
Join(parts) ==
    IF parts = <<>> THEN <<>>
    ELSE IF Len(parts) = 1 THEN parts[1]
    ELSE parts[1] \o <<Sym(",")>> \o Join(Tail(parts))
json_dumps(data) ==
    <<Sym("[")>> \o Join([i \in 1..Len(data) |->
                      <<Sym("[")>> \o Join([j \in 1..Len(data[i]) |-> <<Num(data[i][j])>>])
                                   \o <<Sym("]")>>])
                 \o <<Sym("]")>>

\* The code points a token adds to the hashed text.
TokenCode(tok) ==
    IF "num" \in DOMAIN tok THEN 3 + tok.num
    ELSE IF tok.sym = "[" THEN 1 ELSE IF tok.sym = "]" THEN 2 ELSE 3

\* hash(text) of a str: a keyed hash whose key is drawn when the interpreter
\* starts (no PYTHONHASHSEED is set), here a multiplicative hash seeded with it.
RECURSIVE str_hash(_, _)
str_hash(seed, text) ==
    IF text = <<>> THEN seed
    ELSE str_hash((seed * 31 + TokenCode(Head(text))) % HashModulus, Tail(text))

\* f"prediction:{hash(json.dumps(request.data, sort_keys=True))}"
Fingerprint(seed, data) == <<"prediction", str_hash(seed, json_dumps(data))>>

\* The cache key in the worker process that serves the requests of Spec.
CacheKey(data) == Fingerprint(1, data)
Keys == { CacheKey(d) : d \in AnyData }

\* response.json() and PredictionResponse.parse_raw
ToJson(body) == [json |-> body]
ParseRaw(text) == text.json

EmptyCache == [k \in Keys |-> Missing]

\* ------------------------------------------------------------- responses
HTTPException(code, detail) == [status |-> code, detail |-> detail]

PredictionResponse(r) ==
    [status |-> 200,
     body |-> [predictions |-> outputs[r].predictions,
               model_info |-> [model_name |-> get_model_name,
                               input_shape |-> Shape(request[r].data),
                               cached |-> FALSE]]]

\* redis GET: an entry written with SETEX is gone once its seconds have passed.
RedisGet(key) ==
    IF cache[key] # Missing /\ clock.now >= cache[key].written + cache[key].ttl
    THEN Missing
    ELSE cache[key]

\* History of one request: the artifact of the metadata it validated against,
\* the artifact of the metadata whose name it reported, and for a cache hit
\* the session loaded at the hit and whether, by then, the last reload_models
\* call had reported success after a flushdb call that returned normally, and
\* the age and the TTL of the entry it returned; the TTL its store passed to
\* SETEX.
NoObs == [validated_with |-> None, name_from |-> None, hit_session |-> None,
          hit_after_reload |-> FALSE, entry_age |-> None, entry_ttl |-> None,
          stored_ttl |-> None]

\* History of one reload_models call: the handle when it started, the metadata
\* its load_models call left, the keys cached when it started, and whether its
\* flushdb call returned normally.
NoReload == [session |-> None, metadata |-> EmptyMetadata,
             loaded |-> EmptyMetadata, cached |-> {}, flushed |-> FALSE]

Init ==
    /\ phase = "starting"
    /\ model_manager = NoObject
    /\ redis_client = NoObject
    /\ session = None
    /\ metadata = EmptyMetadata
    /\ cache = EmptyCache
    /\ PREDICTION_COUNT = 0
    /\ pc = [r \in Reqs |-> "idle"]
    /\ request = [r \in Reqs |-> <<>>]
    /\ cache_key = [r \in Reqs |-> NoKey]
    /\ outputs = [r \in Reqs |-> <<>>]
    /\ response = [r \in Reqs |-> NoResponse]
    /\ task = [r \in Reqs |-> NoTask]
    /\ log = [r \in Reqs |-> <<>>]
    /\ obs = [r \in Reqs |-> NoObs]
    /\ rpc = "idle"
    /\ reloads = 0
    /\ rhist = NoReload
    /\ rresponse = NoResponse
    /\ ophase = "starting"
    /\ MODEL_SESSION = None
    /\ MODEL_METADATA = EmptyMetadata
    /\ answers = <<>>
    /\ oreloads = 0
    /\ ohist = [session |-> None, metadata |-> EmptyMetadata]
    /\ oresponse = NoResponse
    /\ oloop = NoCall
    /\ bpc = "idle"
    /\ batch = <<>>
    /\ results = <<>>
    /\ bresponse = NoResponse
    /\ collector = [prediction_times |-> <<>>, prediction_counts |-> 0,
                    error_counts |-> 0, cache_hits |-> 0, cache_misses |-> 0]
    /\ tpc = [t \in Threads |-> "idle"]
    /\ ttarget = [t \in Threads |-> NoCall]
    /\ tlocal = [t \in Threads |-> None]
    /\ calls = <<>>
    /\ hashseed = [w \in Workers |-> None]
    /\ fingerprints = {}
    /\ clock = [now |-> 0, ticks |-> 0]
    /\ validations = <<>>

\* startup_event: Redis first (failure tolerated), then the model (failure fatal).
startup_event(redisOk, disk) ==
    /\ phase = "starting"
    /\ redis_client' = IF redisOk THEN "Redis" ELSE NoObject
    /\ model_manager' = "ModelManager"
    /\ LET res == load_models(session, metadata, disk) IN
         /\ session' = res.session
         /\ metadata' = res.metadata
         /\ phase' = IF res.error = "none" THEN "serving" ELSE "failed"
    /\ UNCHANGED <<cache, PREDICTION_COUNT, requestVars, reloadVars, onnxVars, sideVars>>

\* ------------------------------------------------------------- POST /predict

Finish(r, resp) ==
    /\ pc' = [pc EXCEPT ![r] = "done"]
    /\ response' = [response EXCEPT ![r] = resp]

\* ModelManager.predict up to its await (utils.py 124-146), and the
\* `except Exception` of the handler (main.py 218-223) when it raises.
ModelManager_predict(r, data, prelog) ==
    LET expected_features == Get(metadata, "input_shape", <<None, None>>)[2]
        e == InputError(data, expected_features)
    IN
    IF session = None
    THEN /\ Finish(r, HTTPException(500, <<"Prediction failed", "Model not loaded">>))
         /\ log' = [log EXCEPT ![r] = prelog]
         /\ UNCHANGED obs
    ELSE IF e # "none"
    THEN /\ Finish(r, HTTPException(500, <<"Prediction failed", e>>))
         /\ log' = [log EXCEPT ![r] = prelog \o <<InputErrorTag(e)>>]
         /\ obs' = [obs EXCEPT ![r].validated_with = metadata.artifact]
    ELSE /\ pc' = [pc EXCEPT ![r] = "executor"]
         /\ log' = [log EXCEPT ![r] = prelog \o <<"validated">>]
         /\ obs' = [obs EXCEPT ![r].validated_with = metadata.artifact]
         /\ UNCHANGED response

\* predict computing the key and looking it up whatever request.use_cache says.
predict_ignoring_use_cache(r, data, use_cache, cache_ttl) ==
    /\ phase = "serving"
    /\ pc[r] = "idle"
    /\ \A q \in Reqs : q < r => pc[q] # "idle"     \* slots are taken in order
    /\ request' = [request EXCEPT ![r] =
                     [data |-> data, use_cache |-> use_cache, cache_ttl |-> cache_ttl]]
    /\ IF model_manager = NoObject \/ ~is_loaded
       THEN /\ Finish(r, HTTPException(503, "Model not loaded"))
            /\ UNCHANGED <<cache_key, log, obs>>
       ELSE IF redis_client # NoObject
       THEN /\ cache_key' = [cache_key EXCEPT ![r] = CacheKey(data)]
            /\ pc' = [pc EXCEPT ![r] = "cache_get"]
            /\ log' = [log EXCEPT ![r] = <<"cache_key", "lookup">>]
            /\ UNCHANGED <<response, obs>>
       ELSE /\ ModelManager_predict(r, data, <<>>)
            /\ UNCHANGED cache_key
    /\ UNCHANGED <<phase, model_manager, redis_client, handleVars, cache,
                   PREDICTION_COUNT, outputs, task, reloadVars, onnxVars, sideVars>>

\* predict, from its entry to its first await (main.py 169-181 or 169-191).
predict(r, data, use_cache, cache_ttl) ==
    /\ phase = "serving"
    /\ pc[r] = "idle"
    /\ \A q \in Reqs : q < r => pc[q] # "idle"     \* slots are taken in order
    /\ request' = [request EXCEPT ![r] =
                     [data |-> data, use_cache |-> use_cache, cache_ttl |-> cache_ttl]]
    /\ IF model_manager = NoObject \/ ~is_loaded
       THEN /\ Finish(r, HTTPException(503, "Model not loaded"))
            /\ UNCHANGED <<cache_key, log, obs>>
       ELSE IF redis_client # NoObject /\ use_cache
       THEN /\ cache_key' = [cache_key EXCEPT ![r] = CacheKey(data)]
            /\ pc' = [pc EXCEPT ![r] = "cache_get"]
            /\ log' = [log EXCEPT ![r] = <<"cache_key", "lookup">>]
            /\ UNCHANGED <<response, obs>>
       ELSE /\ ModelManager_predict(r, data, <<>>)
            /\ UNCHANGED cache_key
    /\ UNCHANGED <<phase, model_manager, redis_client, handleVars, cache,
                   PREDICTION_COUNT, outputs, task, reloadVars, onnxVars, sideVars>>

\* POST /predict as FastAPI runs it: the body is validated against
\* PredictionRequest first (models.py 19-24: cache_ttl ge=1, le=86400), a body
\* that fails is answered 422 and predict is not called.
post_predict(r, data, use_cache, cache_ttl) ==
    IF cache_ttl \in MinTTL..MaxTTL
    THEN predict(r, data, use_cache, cache_ttl)
    ELSE /\ phase = "serving"
         /\ pc[r] = "idle"
         /\ \A q \in Reqs : q < r => pc[q] # "idle"
         /\ Finish(r, HTTPException(422, "cache_ttl"))
         /\ log' = [log EXCEPT ![r] = <<"rejected">>]
         /\ UNCHANGED <<phase, model_manager, redis_client, handleVars, cache,
                        PREDICTION_COUNT, request, cache_key, outputs, task, obs,
                        reloadVars, onnxVars, sideVars>>

\* The cache_ttl values a caller can send: the limits, the default, and the
\* first value outside each limit.
SentTTLs == {MinTTL - 1, MinTTL, DefaultTTL, MaxTTL, MaxTTL + 1}

\* Time passes on the Redis server.
Tick(seconds) ==
    /\ clock.ticks < MaxTicks
    /\ clock' = [now |-> clock.now + seconds, ticks |-> clock.ticks + 1]
    /\ UNCHANGED <<mlVars, onnxVars, batchVars, collectorVars, workerVars, validations>>

\* CacheGet with the lookup outside the try block: a failing GET ends the request.
CacheGet_raising(r, reply) ==
    /\ pc[r] = "cache_get"
    /\ LET cached_result == RedisGet(cache_key[r])
           expired == IF cache[cache_key[r]] # Missing THEN <<"expired">> ELSE <<>>
       IN
       IF reply = "unreachable"
       THEN /\ Finish(r, HTTPException(500, <<"Prediction failed", "cache error">>))
            /\ log' = [log EXCEPT ![r] = @ \o <<"cache_error">>]
            /\ UNCHANGED obs
       ELSE IF cached_result = Missing
       THEN ModelManager_predict(r, request[r].data, log[r] \o expired \o <<"miss">>)
       ELSE IF reply = "garbled"
       THEN ModelManager_predict(r, request[r].data, log[r] \o <<"cache_error">>)
       ELSE /\ Finish(r, [status |-> 200, body |-> ParseRaw(cached_result.value)])
            /\ log' = [log EXCEPT ![r] = @ \o <<"hit">>]
            /\ obs' = [obs EXCEPT ![r].hit_session = session,
                                  ![r].hit_after_reload =
                                      (rpc = "idle" /\ rresponse.status = 200
                                       /\ rhist.flushed),
                                  ![r].entry_age = clock.now - cached_result.written,
                                  ![r].entry_ttl = cached_result.ttl]
    /\ UNCHANGED <<phase, model_manager, redis_client, handleVars, cache,
                   PREDICTION_COUNT, request, cache_key, outputs, task, reloadVars,
                   onnxVars, sideVars>>

\* CacheGet with PREDICTION_COUNT.inc() in the hit branch as well.
CacheGet_counting_hits(r, reply) ==
    /\ pc[r] = "cache_get"
    /\ LET cached_result == RedisGet(cache_key[r])
           expired == IF cache[cache_key[r]] # Missing THEN <<"expired">> ELSE <<>>
       IN
       IF reply = "unreachable"
       THEN ModelManager_predict(r, request[r].data, log[r] \o <<"cache_error">>)
       ELSE IF cached_result = Missing
       THEN ModelManager_predict(r, request[r].data, log[r] \o expired \o <<"miss">>)
       ELSE IF reply = "garbled"
       THEN ModelManager_predict(r, request[r].data, log[r] \o <<"cache_error">>)
       ELSE /\ Finish(r, [status |-> 200, body |-> ParseRaw(cached_result.value)])
            /\ log' = [log EXCEPT ![r] = @ \o <<"hit">>]
            /\ obs' = [obs EXCEPT ![r].hit_session = session,
                                  ![r].hit_after_reload =
                                      (rpc = "idle" /\ rresponse.status = 200
                                       /\ rhist.flushed),
                                  ![r].entry_age = clock.now - cached_result.written,
                                  ![r].entry_ttl = cached_result.ttl]
    /\ PREDICTION_COUNT' = IF reply = "ok" /\ RedisGet(cache_key[r]) # Missing
                           THEN PREDICTION_COUNT + 1 ELSE PREDICTION_COUNT
    /\ UNCHANGED <<phase, model_manager, redis_client, handleVars, cache,
                   request, cache_key, outputs, task, reloadVars,
                   onnxVars, sideVars>>

\* `await redis_client.get(cache_key)` completes (main.py 181-186); on a miss
\* or a caught error the handler runs on into ModelManager.predict.
CacheGet(r, reply) ==
    /\ pc[r] = "cache_get"
    /\ LET cached_result == RedisGet(cache_key[r])
           expired == IF cache[cache_key[r]] # Missing THEN <<"expired">> ELSE <<>>
       IN
       IF reply = "unreachable"
       THEN ModelManager_predict(r, request[r].data, log[r] \o <<"cache_error">>)
       ELSE IF cached_result = Missing
       THEN ModelManager_predict(r, request[r].data, log[r] \o expired \o <<"miss">>)
       ELSE IF reply = "garbled"
       THEN ModelManager_predict(r, request[r].data, log[r] \o <<"cache_error">>)
       ELSE /\ Finish(r, [status |-> 200, body |-> ParseRaw(cached_result.value)])
            /\ log' = [log EXCEPT ![r] = @ \o <<"hit">>]
            /\ obs' = [obs EXCEPT ![r].hit_session = session,
                                  ![r].hit_after_reload =
                                      (rpc = "idle" /\ rresponse.status = 200
                                       /\ rhist.flushed),
                                  ![r].entry_age = clock.now - cached_result.written,
                                  ![r].entry_ttl = cached_result.ttl]
    /\ UNCHANGED <<phase, model_manager, redis_client, handleVars, cache,
                   PREDICTION_COUNT, request, cache_key, outputs, task, reloadVars,
                   onnxVars, sideVars>>

\* The executor thread runs `lambda: self.session.run(...)` (utils.py 143-146):
\* self.session is read when the lambda runs, not when it was submitted.
ExecutorRun(r, fault) ==
    /\ pc[r] = "executor"
    /\ outputs' = [outputs EXCEPT ![r] = SessionRun(session, request[r].data, fault)]
    /\ pc' = [pc EXCEPT ![r] = "resume"]
    /\ log' = [log EXCEPT ![r] = @ \o <<"engine">>]
    /\ UNCHANGED <<phase, model_manager, redis_client, handleVars, cache,
                   PREDICTION_COUNT, request, cache_key, response, task, obs,
                   reloadVars, onnxVars, sideVars>>

\* PredictResume with PREDICTION_COUNT.inc() moved ahead of the failure check.
PredictResume_counting_failures(r) ==
    /\ pc[r] = "resume"
    /\ PREDICTION_COUNT' = PREDICTION_COUNT + 1
    /\ IF ~outputs[r].ok
       THEN /\ Finish(r, HTTPException(500, <<"Prediction failed", "engine error">>))
            /\ log' = [log EXCEPT ![r] = @ \o <<"engine_error">>]
            /\ UNCHANGED <<task, obs>>
       ELSE /\ Finish(r, PredictionResponse(r))
            /\ obs' = [obs EXCEPT ![r].name_from = metadata.artifact]
            /\ IF redis_client # NoObject /\ cache_key[r] # NoKey /\ request[r].use_cache
               THEN /\ task' = [task EXCEPT ![r] =
                                  [cache_key |-> cache_key[r],
                                   result |-> ToJson(PredictionResponse(r).body),
                                   ttl |-> request[r].cache_ttl]]
                    /\ log' = [log EXCEPT ![r] = @ \o <<"add_task", "count">>]
               ELSE /\ log' = [log EXCEPT ![r] = @ \o <<"count">>]
                    /\ UNCHANGED task
    /\ UNCHANGED <<phase, model_manager, redis_client, handleVars, cache,
                   request, cache_key, outputs, reloadVars, onnxVars, sideVars>>

\* PredictResume without the `except Exception` clause of the handler: an
\* engine failure leaves it as the framework's bare 500.
PredictResume_unwrapped(r) ==
    /\ pc[r] = "resume"
    /\ IF ~outputs[r].ok
       THEN /\ Finish(r, [status |-> 500, detail |-> <<"Internal Server Error">>])
            /\ log' = [log EXCEPT ![r] = @ \o <<"engine_error">>]
            /\ UNCHANGED <<task, PREDICTION_COUNT, obs>>
       ELSE /\ Finish(r, PredictionResponse(r))
            /\ obs' = [obs EXCEPT ![r].name_from = metadata.artifact]
            /\ IF redis_client # NoObject /\ cache_key[r] # NoKey /\ request[r].use_cache
               THEN /\ task' = [task EXCEPT ![r] =
                                  [cache_key |-> cache_key[r],
                                   result |-> ToJson(PredictionResponse(r).body),
                                   ttl |-> request[r].cache_ttl]]
                    /\ log' = [log EXCEPT ![r] = @ \o <<"add_task", "count">>]
               ELSE /\ log' = [log EXCEPT ![r] = @ \o <<"count">>]
                    /\ UNCHANGED task
            /\ PREDICTION_COUNT' = PREDICTION_COUNT + 1
    /\ UNCHANGED <<phase, model_manager, redis_client, handleVars, cache,
                   request, cache_key, outputs, reloadVars, onnxVars, sideVars>>

\* predict after `await model_manager.predict` (utils.py 148-152, main.py 192-223).
PredictResume(r) ==
    /\ pc[r] = "resume"
    /\ IF ~outputs[r].ok
       THEN /\ Finish(r, HTTPException(500, <<"Prediction failed", "engine error">>))
            /\ log' = [log EXCEPT ![r] = @ \o <<"engine_error">>]
            /\ UNCHANGED <<task, PREDICTION_COUNT, obs>>
       ELSE /\ Finish(r, PredictionResponse(r))
            /\ obs' = [obs EXCEPT ![r].name_from = metadata.artifact]
            /\ IF redis_client # NoObject /\ cache_key[r] # NoKey /\ request[r].use_cache
               THEN /\ task' = [task EXCEPT ![r] =
                                  [cache_key |-> cache_key[r],
                                   result |-> ToJson(PredictionResponse(r).body),
                                   ttl |-> request[r].cache_ttl]]
                    /\ log' = [log EXCEPT ![r] = @ \o <<"add_task", "count">>]
               ELSE /\ log' = [log EXCEPT ![r] = @ \o <<"count">>]
                    /\ UNCHANGED task
            /\ PREDICTION_COUNT' = PREDICTION_COUNT + 1
    /\ UNCHANGED <<phase, model_manager, redis_client, handleVars, cache,
                   request, cache_key, outputs, reloadVars, onnxVars, sideVars>>

\* cache_prediction_result without its try block: a failing SETEX reaches the
\* caller as an error response.
cache_prediction_result_raising(r, reply) ==
    /\ pc[r] = "done"
    /\ bpc # "running"          \* a batch hands its tasks over when it returns
    /\ task[r] # NoTask
    /\ task' = [task EXCEPT ![r] = NoTask]
    /\ IF redis_client # NoObject /\ reply = "ok"
       THEN /\ cache' = [cache EXCEPT ![task[r].cache_key] =
                           [value |-> task[r].result, ttl |-> task[r].ttl,
                            written |-> clock.now, reload |-> reloads]]
            /\ log' = [log EXCEPT ![r] = @ \o <<"stored">>]
            /\ obs' = [obs EXCEPT ![r].stored_ttl = task[r].ttl]
            /\ UNCHANGED response
       ELSE /\ log' = [log EXCEPT ![r] = @ \o <<"store_error">>]
            /\ response' = [response EXCEPT ![r] =
                              HTTPException(500, <<"Prediction failed", "cache error">>)]
            /\ UNCHANGED <<cache, obs>>
    /\ UNCHANGED <<phase, model_manager, redis_client, handleVars,
                   PREDICTION_COUNT, pc, request, cache_key, outputs,
                   reloadVars, onnxVars, sideVars>>

\* cache_prediction_result passing the default TTL to SETEX, whatever the
\* request asked for.
cache_prediction_result_default_ttl(r, reply) ==
    /\ pc[r] = "done"
    /\ bpc # "running"          \* a batch hands its tasks over when it returns
    /\ task[r] # NoTask
    /\ task' = [task EXCEPT ![r] = NoTask]
    /\ IF redis_client # NoObject /\ reply = "ok"
       THEN /\ cache' = [cache EXCEPT ![task[r].cache_key] =
                           [value |-> task[r].result, ttl |-> DefaultTTL,
                            written |-> clock.now, reload |-> reloads]]
            /\ log' = [log EXCEPT ![r] = @ \o <<"stored">>]
            /\ obs' = [obs EXCEPT ![r].stored_ttl = DefaultTTL]
       ELSE /\ log' = [log EXCEPT ![r] = @ \o <<"store_error">>]
            /\ UNCHANGED <<cache, obs>>
    /\ UNCHANGED <<phase, model_manager, redis_client, handleVars,
                   PREDICTION_COUNT, pc, request, cache_key, outputs, response,
                   reloadVars, onnxVars, sideVars>>

\* cache_prediction_result, run by BackgroundTasks after the response was sent
\* (main.py 290-297).  The entry's key "reload" is a history key: the number of
\* reload_models calls started when it was written.
cache_prediction_result(r, reply) ==
    /\ pc[r] = "done"
    /\ bpc # "running"          \* a batch hands its tasks over when it returns
    /\ task[r] # NoTask
    /\ task' = [task EXCEPT ![r] = NoTask]
    /\ IF redis_client # NoObject /\ reply = "ok"
       THEN /\ cache' = [cache EXCEPT ![task[r].cache_key] =
                           [value |-> task[r].result, ttl |-> task[r].ttl,
                            written |-> clock.now, reload |-> reloads]]
            /\ log' = [log EXCEPT ![r] = @ \o <<"stored">>]
            /\ obs' = [obs EXCEPT ![r].stored_ttl = task[r].ttl]
       ELSE /\ log' = [log EXCEPT ![r] = @ \o <<"store_error">>]
            /\ UNCHANGED <<cache, obs>>
    /\ UNCHANGED <<phase, model_manager, redis_client, handleVars,
                   PREDICTION_COUNT, pc, request, cache_key, outputs, response,
                   reloadVars, onnxVars, sideVars>>

\* ------------------------------------------------------------- POST /models/reload

\* reload_models up to `await redis_client.flushdb()` (main.py 262-272), or to
\* its return when load_models raises or there is no Redis client.
reload_models(disk) ==
    /\ phase = "serving"
    /\ rpc = "idle"
    /\ reloads < MaxReloads
    /\ reloads' = reloads + 1
    /\ model_manager' = "ModelManager"
    /\ LET fresh == model_manager = NoObject     \* else branch: ModelManager("models/")
           res == load_models(IF fresh THEN None ELSE session,
                              IF fresh THEN EmptyMetadata ELSE metadata, disk)
       IN
         /\ session' = res.session
         /\ metadata' = res.metadata
         /\ rhist' = [session |-> session, metadata |-> metadata,
                      loaded |-> res.metadata,
                      cached |-> { k \in Keys : cache[k] # Missing },
                      flushed |-> FALSE]
         /\ IF res.error # "none"
            THEN /\ rresponse' = HTTPException(500, <<"Model reload failed", res.error>>)
                 /\ UNCHANGED rpc
            ELSE IF redis_client # NoObject
            THEN /\ rpc' = "flush"
                 /\ UNCHANGED rresponse
            ELSE /\ rresponse' = [status |-> 200,
                                  model_name |-> Get(res.metadata, "model_name", Unknown)]
                 /\ UNCHANGED rpc
    /\ UNCHANGED <<phase, redis_client, cache, PREDICTION_COUNT, requestVars,
                   onnxVars, sideVars>>

\* reload_flush without the flushdb call: the cache keeps its entries.
reload_flush_keeping_cache(reply) ==
    /\ rpc = "flush"
    /\ rpc' = "idle"
    /\ UNCHANGED cache
    /\ rhist' = [rhist EXCEPT !.flushed = (reply = "ok")]
    /\ rresponse' = [status |-> 200, model_name |-> get_model_name]
    /\ UNCHANGED <<phase, model_manager, redis_client, handleVars,
                   PREDICTION_COUNT, requestVars, reloads, onnxVars, sideVars>>

\* `await redis_client.flushdb()` completes and reload_models returns
\* (main.py 272-280).
reload_flush(reply) ==
    /\ rpc = "flush"
    /\ rpc' = "idle"
    /\ IF reply = "ok"
       THEN cache' = EmptyCache
       ELSE UNCHANGED cache
    /\ rhist' = [rhist EXCEPT !.flushed = (reply = "ok")]
    /\ rresponse' = [status |-> 200, model_name |-> get_model_name]
    /\ UNCHANGED <<phase, model_manager, redis_client, handleVars,
                   PREDICTION_COUNT, requestVars, reloads, onnxVars, sideVars>>

\* ------------------------------------------------------------- POST /predict/batch

\* The PredictionRequest objects a caller can send.
Requests == [data : Data, use_cache : BOOLEAN, cache_ttl : TTLs]

\* A batch: at least one request, at most as many as there are request slots.
Batches == UNION { [1..k -> Requests] : k \in 1..NumRequests }

\* PredictionResponse(predictions=[], probabilities=[], model_info={"error": ...})
ErrorMarker(detail) ==
    [predictions |-> <<>>, probabilities |-> <<>>, model_info |-> [error |-> detail]]

\* predict_batch without its guard: the loop starts whatever the model's state.
predict_batch_without_guard(requests) ==
    /\ phase = "serving"
    /\ bpc = "idle"
    /\ batch' = requests
    /\ bpc' = "running"
    /\ UNCHANGED <<results, bresponse, mlVars, onnxVars, collectorVars, workerVars, clock, validations>>

\* predict_batch, from its entry to the head of its loop (main.py 232-238).
predict_batch(requests) ==
    /\ phase = "serving"
    /\ bpc = "idle"
    /\ batch' = requests
    /\ IF model_manager = NoObject \/ ~is_loaded
       THEN /\ bpc' = "done"
            /\ bresponse' = HTTPException(503, "Model not loaded")
       ELSE /\ bpc' = "running"
            /\ UNCHANGED bresponse
    /\ UNCHANGED <<results, mlVars, onnxVars, collectorVars, workerVars, clock, validations>>

\* `await predict(req, background_tasks)` for the r-th request of the batch
\* (main.py 239-241): predict runs in request slot r up to its first await.
BatchCall(r) ==
    /\ bpc = "running"
    /\ r = Len(results) + 1
    /\ r <= Len(batch)
    /\ predict(r, batch[r].data, batch[r].use_cache, batch[r].cache_ttl)

\* BatchCollect with the `except HTTPException` clause left out: the first
\* failing request ends the batch.
BatchCollect_aborting(r) ==
    /\ bpc = "running"
    /\ r = Len(results) + 1
    /\ pc[r] = "done"
    /\ IF response[r].status = 200
       THEN /\ results' = Append(results, response[r].body)
            /\ bpc' = IF r = Len(batch) THEN "done" ELSE "running"
            /\ bresponse' = IF r = Len(batch) THEN [status |-> 200, body |-> results']
                            ELSE bresponse
       ELSE /\ bpc' = "done"
            /\ bresponse' = response[r]
            /\ UNCHANGED results
    /\ UNCHANGED <<batch, mlVars, onnxVars, collectorVars, workerVars, clock, validations>>

\* predict returned or raised HTTPException: the loop body appends the result
\* or the error marker (main.py 241-252) and, after the last request, the
\* handler returns (main.py 254).  The loop goes on into the next `await
\* predict` in the same step of the event loop; here that is a step of its
\* own, BatchCall, which nothing of the batch can precede.
BatchCollect(r) ==
    /\ bpc = "running"
    /\ r = Len(results) + 1
    /\ pc[r] = "done"
    /\ results' = Append(results, IF response[r].status = 200
                                  THEN response[r].body
                                  ELSE ErrorMarker(response[r].detail))
    /\ bpc' = IF r = Len(batch) THEN "done" ELSE "running"
    /\ bresponse' = IF r = Len(batch) THEN [status |-> 200, body |-> results']
                    ELSE bresponse
    /\ UNCHANGED <<batch, mlVars, onnxVars, collectorVars, workerVars, clock, validations>>

\* ------------------------------------------------------------- MetricsCollector

Durations == {1}
\* The methods a thread can call, with the counter each adds to.
CollectorCalls ==
    { [method |-> "record_prediction", counter |-> "prediction_counts"],
      [method |-> "record_prediction", counter |-> "error_counts"],
      [method |-> "record_cache_hit", counter |-> "cache_hits"],
      [method |-> "record_cache_miss", counter |-> "cache_misses"] }

\* record_prediction keeping no sample of the duration.
record_prediction_without_sample(t, duration, success) ==
    /\ tpc[t] = "idle"
    /\ ttarget' = [ttarget EXCEPT ![t] =
                     [method |-> "record_prediction",
                      counter |-> IF success THEN "prediction_counts"
                                  ELSE "error_counts"]]
    /\ tpc' = [tpc EXCEPT ![t] = "load"]
    /\ calls' = Append(calls, ttarget'[t])
    /\ UNCHANGED <<collector, tlocal, mlVars, onnxVars, batchVars, workerVars, clock, validations>>

\* record_prediction up to the read of its counter: the append is one call of
\* list.append (utils.py 209-214).
record_prediction(t, duration, success) ==
    /\ tpc[t] = "idle"
    /\ collector' = [collector EXCEPT !.prediction_times = Append(@, duration)]
    /\ ttarget' = [ttarget EXCEPT ![t] =
                     [method |-> "record_prediction",
                      counter |-> IF success THEN "prediction_counts"
                                  ELSE "error_counts"]]
    /\ tpc' = [tpc EXCEPT ![t] = "load"]
    /\ calls' = Append(calls, ttarget'[t])
    /\ UNCHANGED <<tlocal, mlVars, onnxVars, batchVars, workerVars, clock, validations>>

\* record_cache_hit and record_cache_miss are entered (utils.py 216-222).
record_cache(t, hit) ==
    /\ tpc[t] = "idle"
    /\ ttarget' = [ttarget EXCEPT ![t] =
                     IF hit THEN [method |-> "record_cache_hit", counter |-> "cache_hits"]
                     ELSE [method |-> "record_cache_miss", counter |-> "cache_misses"]]
    /\ tpc' = [tpc EXCEPT ![t] = "load"]
    /\ calls' = Append(calls, ttarget'[t])
    /\ UNCHANGED <<collector, tlocal, mlVars, onnxVars, batchVars, workerVars, clock, validations>>

\* `self.counter += 1` reads the attribute ...
CounterLoad(t) ==
    /\ tpc[t] = "load"
    /\ tlocal' = [tlocal EXCEPT ![t] = collector[ttarget[t].counter]]
    /\ tpc' = [tpc EXCEPT ![t] = "store"]
    /\ UNCHANGED <<collector, ttarget, calls, mlVars, onnxVars, batchVars, workerVars, clock, validations>>

\* ... and then writes the sum back; there is no lock around the two, and
\* another thread can run between them.
CounterStore(t) ==
    /\ tpc[t] = "store"
    /\ collector' = [collector EXCEPT ![ttarget[t].counter] = tlocal[t] + 1]
    /\ tpc' = [tpc EXCEPT ![t] = "done"]
    /\ UNCHANGED <<ttarget, tlocal, calls, mlVars, onnxVars, batchVars, workerVars, clock, validations>>

MetricsNext ==
    \/ \E t \in Threads, duration \in Durations, success \in BOOLEAN :
          record_prediction(t, duration, success)
    \/ \E t \in Threads, hit \in BOOLEAN : record_cache(t, hit)
    \/ \E t \in Threads : CounterLoad(t)
    \/ \E t \in Threads : CounterStore(t)

MetricsSpec == Init /\ [][MetricsNext]_vars

\* No call is between its entry and its return.
Quiescent == \A t \in Threads : tpc[t] \in {"idle", "done"}

\* The call of thread t has returned; the thread can call again.
CollectorReturn(t) ==
    /\ tpc[t] = "done"
    /\ tpc' = [tpc EXCEPT ![t] = "idle"]
    /\ ttarget' = [ttarget EXCEPT ![t] = NoCall]
    /\ tlocal' = [tlocal EXCEPT ![t] = None]
    /\ UNCHANGED <<collector, calls, mlVars, onnxVars, batchVars, workerVars, clock, validations>>

\* Smallest and largest element of a non-empty sequence of numbers.
Min(seq) == CHOOSE m \in { seq[i] : i \in DOMAIN seq } : \A i \in DOMAIN seq : m <= seq[i]
Max(seq) == CHOOSE m \in { seq[i] : i \in DOMAIN seq } : \A i \in DOMAIN seq : m >= seq[i]

\* get_stats (utils.py 225-241).  The mean and the percentiles are real
\* numbers computed from prediction_times alone and are left out; the counters
\* and the extremes are as the code returns them.
get_stats ==
    IF collector.prediction_times = <<>>
    THEN [message |-> "No predictions recorded yet"]
    ELSE [total_predictions |-> collector.prediction_counts,
          total_errors |-> collector.error_counts,
          cache_hits |-> collector.cache_hits,
          cache_misses |-> collector.cache_misses,
          min_prediction_time |-> Min(collector.prediction_times),
          max_prediction_time |-> Max(collector.prediction_times)]

\* The collector called from one place at a time: a call is entered only
\* when every earlier call has returned.
SerialMetricsNext ==
    \/ \E t \in Threads, duration \in Durations, success \in BOOLEAN :
          /\ Quiescent /\ Len(calls) < MaxCalls
          /\ record_prediction(t, duration, success)
    \/ \E t \in Threads, hit \in BOOLEAN :
          /\ Quiescent /\ Len(calls) < MaxCalls
          /\ record_cache(t, hit)
    \/ \E t \in Threads : CounterLoad(t)
    \/ \E t \in Threads : CounterStore(t)
    \/ \E t \in Threads : CollectorReturn(t)

SerialMetricsSpec == Init /\ [][SerialMetricsNext]_vars

\* ------------------------------------------------------------- worker processes

\* request.data with values and row order that can differ: one or two rows of
\* two floats.
FingerprintData ==
    UNION { [1..k -> [1..2 -> {1, 2}]] : k \in 1..2 }

\* uvicorn starts worker process w: a fresh interpreter with its own hash seed.
WorkerStart(w, seed) ==
    /\ hashseed[w] = None
    /\ hashseed' = [hashseed EXCEPT ![w] = seed]
    /\ UNCHANGED <<fingerprints, mlVars, onnxVars, batchVars, collectorVars, clock, validations>>

\* predict computes the cache key of a request in worker process w
\* (main.py 176-178).
ComputeKey(w, data) ==
    /\ hashseed[w] # None
    /\ Cardinality(fingerprints) < MaxFingerprints
    /\ fingerprints' = fingerprints \cup
           {[worker |-> w, data |-> data, key |-> Fingerprint(hashseed[w], data)]}
    /\ UNCHANGED <<hashseed, mlVars, onnxVars, batchVars, collectorVars, clock, validations>>

WorkerNext ==
    \/ \E w \in Workers, seed \in Seeds : WorkerStart(w, seed)
    \/ \E w \in Workers, data \in FingerprintData : ComputeKey(w, data)

WorkerSpec == Init /\ [][WorkerNext]_vars

\* ------------------------------------------------------------- input validation

\* Lists of up to two rows of up to MaxRowLen floats; the expected feature
\* count is None or a row length.
ValidationData ==
    UNION { [1..k -> UNION { [1..n -> Values] : n \in 0..MaxRowLen }] : k \in 0..2 }
ExpectedFeatures == {None} \cup (1..MaxRowLen)

\* validate_input_data (utils.py 244-258) on a list of lists of floats, for
\* which its two isinstance tests pass.  `len(row) == None` is False.
validate_input_data(data, expected_features) ==
    IF data = <<>> THEN FALSE
    ELSE IF ~ \A i \in 1..Len(data) :
                 expected_features # None /\ Len(data[i]) = expected_features
    THEN FALSE
    ELSE TRUE

\* One input is put to validate_input_data and to the conversion and shape
\* check of ModelManager.predict.
Validate(data, expected_features) ==
    /\ Len(validations) < MaxValidations
    /\ validations' = Append(validations,
           [data |-> data, expected_features |-> expected_features,
            valid |-> validate_input_data(data, expected_features),
            error |-> InputError(data, expected_features)])
    /\ UNCHANGED <<mlVars, onnxVars, batchVars, collectorVars, workerVars, clock>>

ValidateNext ==
    \E data \in ValidationData, expected_features \in ExpectedFeatures :
        Validate(data, expected_features)

ValidateSpec == Init /\ [][ValidateNext]_vars

\* ------------------------------------------------------------- ONNX server

\* load_model: the globals and the exception it ends with.
load_model(sess, md, disk) ==
    IF disk.model = "missing"
    THEN [session |-> sess, metadata |-> md, error |-> "FileNotFoundError"]
    ELSE IF disk.model = "corrupt"
    THEN [session |-> sess, metadata |-> md, error |-> "InvalidGraph"]
    ELSE IF disk.meta = "unreadable"
    THEN [session |-> disk.version, metadata |-> md, error |-> "JSONDecodeError"]
    ELSE [session |-> disk.version,
          metadata |-> IF disk.meta = "ok" THEN MetadataDocument(disk.version)
                       ELSE [artifact |-> disk.version, model_name |-> Unknown,
                             model_type |-> "unknown"],
          error |-> "none"]

\* startup_event of the ONNX server.
OnnxStartup(disk) ==
    /\ ophase = "starting"
    /\ LET res == load_model(MODEL_SESSION, MODEL_METADATA, disk) IN
         /\ MODEL_SESSION' = res.session
         /\ MODEL_METADATA' = res.metadata
         /\ ophase' = IF res.error = "none" THEN "serving" ELSE "failed"
    /\ UNCHANGED <<answers, oreloads, ohist, oresponse, oloop, mlVars, sideVars>>

\* predict of the ONNX server: what it answers.  The answer records the
\* exception raised inside the try block, if any, and the response that left
\* the handler.
OnnxAnswer(data, fault) ==
    LET expected_features == Get(MODEL_METADATA, "input_shape", <<None, None>>)[2]
        e == InputError(data, expected_features)
        out == SessionRun(MODEL_SESSION, data, fault)
    IN
    IF MODEL_SESSION = None
    THEN [data |-> data, raised |-> "none",
          response |-> HTTPException(503, "Model not loaded")]
    ELSE IF e # "none"
    THEN [data |-> data,
          raised |-> IF e = "Invalid input shape" THEN "HTTPException(400)" ELSE e,
          response |-> HTTPException(500, <<"Prediction failed", e>>)]
    ELSE IF ~out.ok
    THEN [data |-> data, raised |-> "engine error",
          response |-> HTTPException(500, <<"Prediction failed", "engine error">>)]
    ELSE [data |-> data, raised |-> "none",
          response |-> [status |-> 200,
                        body |-> [predictions |-> out.predictions,
                                  model_info |->
                                    [model_name |-> Get(MODEL_METADATA, "model_name", Unknown),
                                     model_type |-> Get(MODEL_METADATA, "model_type", "unknown"),
                                     input_shape |-> Shape(data)]]]]

\* predict of the ONNX server, from its entry to the call of MODEL_SESSION.run
\* (main.py 155-177), or to its response when it raises before that.  The
\* handler is `async def` and has no await: it runs on the event loop thread.
OnnxPredict(data) ==
    /\ ophase = "serving"
    /\ oloop = NoCall
    /\ Len(answers) < MaxAnswers
    /\ LET expected_features == Get(MODEL_METADATA, "input_shape", <<None, None>>)[2] IN
       IF MODEL_SESSION = None \/ InputError(data, expected_features) # "none"
       THEN /\ answers' = Append(answers, OnnxAnswer(data, FALSE))
            /\ UNCHANGED oloop
       ELSE /\ oloop' = [data |-> data]
            /\ UNCHANGED answers
    /\ UNCHANGED <<ophase, MODEL_SESSION, MODEL_METADATA, oreloads, ohist,
                   oresponse, mlVars, sideVars>>

\* MODEL_SESSION.run returns or raises, and the handler runs to its response
\* (main.py 177-198).  Until then the event loop thread is inside the call.
OnnxEngineReturn(fault) ==
    /\ oloop # NoCall
    /\ answers' = Append(answers, OnnxAnswer(oloop.data, fault))
    /\ oloop' = NoCall
    /\ UNCHANGED <<ophase, MODEL_SESSION, MODEL_METADATA, oreloads, ohist,
                   oresponse, mlVars, sideVars>>

\* reload_model of the ONNX server.
OnnxReload(disk) ==
    /\ ophase = "serving"
    /\ oloop = NoCall
    /\ oreloads < MaxReloads
    /\ oreloads' = oreloads + 1
    /\ ohist' = [session |-> MODEL_SESSION, metadata |-> MODEL_METADATA]
    /\ LET res == load_model(MODEL_SESSION, MODEL_METADATA, disk) IN
         /\ MODEL_SESSION' = res.session
         /\ MODEL_METADATA' = res.metadata
         /\ oresponse' =
              IF res.error = "none"
              THEN [status |-> 200,
                    model_name |-> Get(res.metadata, "model_name", Unknown)]
              ELSE HTTPException(500, <<"Model reload failed", res.error>>)
    /\ UNCHANGED <<ophase, answers, oloop, mlVars, sideVars>>

OnnxNext ==
    \/ \E disk \in FirstDisks : OnnxStartup(disk)
    \/ \E data \in AnyData : OnnxPredict(data)
    \/ \E fault \in BOOLEAN : OnnxEngineReturn(fault)
    \/ \E disk \in Disks : OnnxReload(disk)

OnnxSpec == Init /\ [][OnnxNext]_vars

Next ==
    \/ \E redisOk \in BOOLEAN, disk \in FirstDisks : startup_event(redisOk, disk)
    \/ \E r \in Reqs, data \in Data, use_cache \in BOOLEAN, ttl \in TTLs :
          predict(r, data, use_cache, ttl)
    \/ \E r \in Reqs, reply \in {"ok", "unreachable", "garbled"} : CacheGet(r, reply)
    \/ \E r \in Reqs, fault \in BOOLEAN : ExecutorRun(r, fault)
    \/ \E r \in Reqs : PredictResume(r)
    \/ \E r \in Reqs, reply \in {"ok", "unreachable"} : cache_prediction_result(r, reply)
    \/ \E disk \in Disks : reload_models(disk)
    \/ \E reply \in {"ok", "unreachable"} : reload_flush(reply)

Spec == Init /\ [][Next]_vars

\* The ML-pipeline API called through POST /predict/batch.
BatchNext ==
    \/ \E redisOk \in BOOLEAN, disk \in FirstDisks : startup_event(redisOk, disk)
    \/ \E requests \in Batches : predict_batch(requests)
    \/ \E r \in Reqs : BatchCall(r)
    \/ \E r \in Reqs, reply \in {"ok", "unreachable", "garbled"} : CacheGet(r, reply)
    \/ \E r \in Reqs, fault \in BOOLEAN : ExecutorRun(r, fault)
    \/ \E r \in Reqs : PredictResume(r)
    \/ \E r \in Reqs : BatchCollect(r)
    \/ \E r \in Reqs, reply \in {"ok", "unreachable"} : cache_prediction_result(r, reply)
    \/ \E disk \in Disks : reload_models(disk)
    \/ \E reply \in {"ok", "unreachable"} : reload_flush(reply)

BatchSpec == Init /\ [][BatchNext]_vars

\* The ML-pipeline application answering requests although startup_event has
\* not run (an ASGI server with the lifespan protocol off, or the handlers
\* called on the imported module): model_manager and redis_client keep the
\* values the module gives them, None (main.py 52-53).
ServeWithoutStartup ==
    /\ phase = "starting"
    /\ phase' = "serving"
    /\ UNCHANGED <<model_manager, redis_client, handleVars, cache, PREDICTION_COUNT,
                   requestVars, reloadVars, onnxVars, sideVars>>

\* The same for the ONNX server: MODEL_SESSION is None and MODEL_METADATA is
\* the empty dict (ONNX main.py 38-39).
OnnxServeWithoutStartup ==
    /\ ophase = "starting"
    /\ ophase' = "serving"
    /\ UNCHANGED <<MODEL_SESSION, MODEL_METADATA, answers, oreloads, ohist, oresponse,
                   oloop, mlVars, sideVars>>

\* No model is loaded: the condition of the guards of predict and
\* predict_batch (main.py 169, 232).
Unloaded == model_manager = NoObject \/ ~is_loaded

\* What a reload can find on disk here: the first artifact, readable or not.
ReloadDisks == { d \in Disks : d.version = 1 /\ d.meta = "ok" }

\* Both servers without their startup hooks; a reload is what loads a model.
\* A batch that gets past its guard uses the request slots from the first
\* one on, so it starts only while they are free.
UnloadedNext ==
    \/ ServeWithoutStartup
    \/ \E r \in Reqs, data \in Data, use_cache \in BOOLEAN, ttl \in TTLs :
          bpc # "running" /\ predict(r, data, use_cache, ttl)
    \/ \E r \in Reqs : ExecutorRun(r, FALSE)
    \/ \E r \in Reqs : PredictResume(r)
    \/ \E requests \in Batches :
          /\ Unloaded \/ \A r \in Reqs : pc[r] = "idle"
          /\ predict_batch(requests)
    \/ \E r \in Reqs : BatchCall(r)
    \/ \E r \in Reqs : BatchCollect(r)
    \/ \E disk \in ReloadDisks : reload_models(disk)
    \/ OnnxServeWithoutStartup
    \/ \E data \in Data : OnnxPredict(data)
    \/ OnnxEngineReturn(FALSE)
    \/ \E disk \in ReloadDisks : OnnxReload(disk)

UnloadedSpec == Init /\ [][UnloadedNext]_vars

\* POST /predict with every input the request model admits, the model that
\* startup loaded staying in place.
InputNext ==
    \/ \E redisOk \in BOOLEAN, disk \in FirstDisks : startup_event(redisOk, disk)
    \/ \E r \in Reqs, data \in AnyData, use_cache \in BOOLEAN, ttl \in TTLs :
          predict(r, data, use_cache, ttl)
    \/ \E r \in Reqs, reply \in {"ok", "unreachable", "garbled"} : CacheGet(r, reply)
    \/ \E r \in Reqs, fault \in BOOLEAN : ExecutorRun(r, fault)
    \/ \E r \in Reqs : PredictResume(r)
    \/ \E r \in Reqs, reply \in {"ok", "unreachable"} : cache_prediction_result(r, reply)

InputSpec == Init /\ [][InputNext]_vars

\* POST /predict with the cache_ttl values a caller can send, while time passes.
TtlNext ==
    \/ \E redisOk \in BOOLEAN, disk \in FirstDisks : startup_event(redisOk, disk)
    \/ \E r \in Reqs, data \in Data, use_cache \in BOOLEAN, ttl \in SentTTLs :
          post_predict(r, data, use_cache, ttl)
    \/ \E r \in Reqs, reply \in {"ok", "unreachable", "garbled"} : CacheGet(r, reply)
    \/ \E r \in Reqs, fault \in BOOLEAN : ExecutorRun(r, fault)
    \/ \E r \in Reqs : PredictResume(r)
    \/ \E r \in Reqs, reply \in {"ok", "unreachable"} : cache_prediction_result(r, reply)
    \/ \E seconds \in {MinTTL, DefaultTTL, MaxTTL} : Tick(seconds)

TtlSpec == Init /\ [][TtlNext]_vars

\* ------------------------------------------------------------- properties

Has(seq, e) == \E i \in 1..Len(seq) : seq[i] = e
Done(r) == pc[r] = "done"
ReloadReturned == rpc = "idle" /\ reloads > 0

\* C1: after a reload_models call that reported failure, the session and the
\* metadata are exactly what they were when the call started.
FailsOpenReload ==
    (ReloadReturned /\ rresponse.status = 500)
        => (session = rhist.session /\ metadata = rhist.metadata)

\* C2: a request answered by the engine validated its shape against, ran its
\* inference on, and reported the name of one and the same model version.
ConsistentSnapshot ==
    \A r \in Reqs :
        (Done(r) /\ response[r].status = 200 /\ Has(log[r], "engine"))
            => /\ obs[r].validated_with = outputs[r].session
               /\ obs[r].name_from = outputs[r].session

\* C3: while the process is alive, session and metadata are both absent, or
\* both present and loaded from the same artifact.
ModelHandleInvariant ==
    phase \in {"starting", "serving"}
        => \/ session = None /\ metadata = EmptyMetadata
           \/ session # None /\ metadata.artifact = session

NoStaleHitAfterReload ==
    \A r \in Reqs :
        (Done(r) /\ Has(log[r], "hit") /\ obs[r].hit_after_reload)
            => response[r].body.predictions.model = obs[r].hit_session

\* C6: shape validation comes before the cache lookup, and a request with a
\* wrong feature count performs no cache lookup.
ValidationPrecedesLookup ==
    \A r \in Reqs :
        /\ \A i \in 1..Len(log[r]) :
              log[r][i] = "lookup"
                  => \E j \in 1..(i - 1) : log[r][j] = "validated"
        /\ Has(log[r], "shape_mismatch") => ~Has(log[r], "lookup")

\* The requests answered 200 by the engine (not from the cache).
SuccessfulPredictions ==
    { r \in Reqs : Done(r) /\ response[r].status = 200 /\ ~Has(log[r], "hit") }

\* C7: a request that failed validation or inference scheduled no cache store
\* and was not counted (the prediction counter equals the number of requests
\* the engine answered), and a shape-mismatched request never reached the engine.
FailedWithoutSideEffects ==
    /\ \A r \in Reqs :
          (Done(r) /\ response[r].status = 500)
              => /\ task[r] = NoTask
                 /\ ~Has(log[r], "add_task")
                 /\ ~Has(log[r], "stored")
                 /\ Has(log[r], "shape_mismatch") => ~Has(log[r], "engine")
    /\ PREDICTION_COUNT = Cardinality(SuccessfulPredictions)

FailedWithoutSideEffectsWitness ==
    \E r, q \in Reqs :
        /\ Done(r) /\ response[r].status = 500 /\ Has(log[r], "shape_mismatch")
        /\ Done(q) /\ response[q].status = 500 /\ Has(log[q], "engine_error")
        /\ cache_key[q] # NoKey

\* C8: in the ML-pipeline API and in the ONNX server, a request whose row
\* length disagrees with the expected feature count is answered with a
\* client-error status (4xx), not the 500 of an engine failure.
ShapeMismatchIsClientError ==
    /\ \A r \in Reqs :
          (Done(r) /\ Has(log[r], "shape_mismatch"))
              => response[r].status \in 400..499
    /\ \A i \in 1..Len(answers) :
          answers[i].raised = "HTTPException(400)"
              => answers[i].response.status \in 400..499

\* C9: a response served from the cache has its cached flag set and carries
\* the predictions of an earlier response to the same rows.
SecondResponseCached ==
    \A r \in Reqs :
        (Done(r) /\ Has(log[r], "hit"))
            => /\ response[r].body.model_info.cached = TRUE
               /\ \E q \in Reqs \ {r} :
                     /\ Done(q) /\ response[q].status = 200
                     /\ request[q].data = request[r].data
                     /\ response[q].body.predictions = response[r].body.predictions

\* C10: a request whose cache lookup failed goes on to inference, and unless
\* validation or the engine fails it is answered 200 with a freshly computed
\* result marked cached = false; a failed store changes nothing of that.
CacheDegradation ==
    \A r \in Reqs :
        Has(log[r], "cache_error")
            => /\ pc[r] \in {"executor", "resume", "done"}
               /\ (Done(r) /\ ~Has(log[r], "shape_mismatch")
                           /\ ~Has(log[r], "engine_error"))
                    => /\ response[r].status = 200
                       /\ outputs[r].ok
                       /\ response[r].body.predictions = outputs[r].predictions
                       /\ response[r].body.model_info.cached = FALSE

CacheDegradationWitness ==
    \E r \in Reqs :
        /\ Done(r) /\ Has(log[r], "cache_error") /\ Has(log[r], "store_error")
        /\ response[r].status = 200
        /\ response[r].body.model_info.cached = FALSE

\* The position of the first occurrence of e in seq (0 when there is none).
Pos(seq, e) ==
    IF Has(seq, e) THEN CHOOSE i \in 1..Len(seq) :
                            seq[i] = e /\ \A j \in 1..(i - 1) : seq[j] # e
    ELSE 0

\* C11: a cache store is queued only once the engine's result is there and it
\* is still pending when the caller has its 200 response; the store runs after
\* that, and whether it succeeds or fails the caller's response stays the
\* freshly computed one.
CacheStoreDetached ==
    \A r \in Reqs :
        /\ Has(log[r], "add_task")
              => /\ 0 < Pos(log[r], "engine")
                 /\ Pos(log[r], "engine") < Pos(log[r], "add_task")
                 /\ outputs[r].ok
        /\ task[r] # NoTask
              => /\ Done(r) /\ response[r].status = 200
                 /\ task[r].result = ToJson(response[r].body)
                 /\ ~Has(log[r], "stored") /\ ~Has(log[r], "store_error")
        /\ (Has(log[r], "stored") \/ Has(log[r], "store_error"))
              => /\ Pos(log[r], "add_task") > 0
                 /\ Done(r) /\ response[r].status = 200
                 /\ response[r].body.predictions = outputs[r].predictions
                 /\ response[r].body.model_info.cached = FALSE

CacheStoreDetachedWitness ==
    \E r, q \in Reqs :
        /\ Done(r) /\ task[r] # NoTask /\ cache[task[r].cache_key] = Missing
        /\ Done(q) /\ Has(log[q], "store_error") /\ response[q].status = 200

\* C12: a batch that ran to its end has one result per request, in request
\* order; the slot of a request that passed validation and inference holds its
\* prediction, the slot of a request that failed holds an error marker with
\* the failure's detail, and no failure stops the requests after it.
BatchIsolation ==
    /\ bpc = "running" => Len(results) <= Len(batch)
    /\ (bpc = "done" /\ is_loaded) => Len(results) = Len(batch)
    /\ \A i \in 1..Len(results) :
          /\ request[i] = batch[i]
          /\ Done(i)
          /\ LET failed == Has(log[i], "shape_mismatch") \/ Has(log[i], "engine_error")
             IN  IF failed
                 THEN results[i] = ErrorMarker(response[i].detail)
                 ELSE /\ results[i] = response[i].body
                      /\ results[i].predictions.input = batch[i].data

BatchIsolationWitness ==
    /\ bpc = "done" /\ Len(batch) = 2 /\ Len(results) = 2
    /\ Has(log[1], "shape_mismatch")
    /\ results[1] = ErrorMarker(<<"Prediction failed", "Invalid input shape">>)
    /\ response[2].status = 200 /\ results[2] = response[2].body

\* While an inference of the ML-pipeline API is with the executor, a caller
\* that finds a free request slot can enter predict.
ExecutorDoesNotBlock ==
    ((\E r \in Reqs : pc[r] = "executor") /\ (\E q \in Reqs : pc[q] = "idle"))
        => ENABLED (\E q \in Reqs, data \in Data, use_cache \in BOOLEAN, ttl \in TTLs :
                       predict(q, data, use_cache, ttl))

\* C13: while the engine runs one request's inference, the service can accept
\* another request, in the ML-pipeline API and in the ONNX server.
InferenceDoesNotBlock ==
    /\ ExecutorDoesNotBlock
    /\ (oloop # NoCall /\ Len(answers) + 1 < MaxAnswers)
          => ENABLED (\E data \in AnyData : OnnxPredict(data))

\* C14: once every predict call has completed successfully, the prediction
\* counter equals the number of calls, whether the engine or the cache
\* answered them.
PredictionCountEqualsCalls ==
    (\A r \in Reqs : Done(r) /\ response[r].status = 200)
        => PREDICTION_COUNT = NumRequests

\* C15: when every thread's call has returned, each counter equals the number
\* of calls that added to it, and prediction_times holds one sample per
\* record_prediction call.
NoLostUpdates ==
    (\A t \in Threads : tpc[t] = "done")
        => /\ \A c \in { call.counter : call \in CollectorCalls } :
                 collector[c] = Cardinality({ t \in Threads : ttarget[t].counter = c })
           /\ Len(collector.prediction_times)
                 = Cardinality({ t \in Threads : ttarget[t].method = "record_prediction" })

\* Within one worker process, equal rows get equal keys and different rows
\* get different keys.
FingerprintPerProcess ==
    \A a, b \in fingerprints :
        a.worker = b.worker => (a.data = b.data <=> a.key = b.key)

\* C16: two requests with the same rows in the same order get the same cache
\* key, whichever worker processes handle them, and two requests whose rows
\* differ in a value or in their order get different keys.
FingerprintDeterminism ==
    \A a, b \in fingerprints :
        /\ a.data = b.data => a.key = b.key
        /\ a.data # b.data => a.key # b.key

\* The failures a request met on its way, as their messages.
Failures(r) ==
    { e \in {"inhomogeneous shape", "tuple index out of range", "Invalid input shape"} :
          Has(log[r], InputErrorTag(e)) }
    \cup (IF Has(log[r], "engine_error") THEN {"engine error"} ELSE {})

\* C17: a predict call that met a failure in conversion, validation or the
\* engine is answered with one "Prediction failed" error that carries the
\* failure's message, in the ML-pipeline API and in the ONNX server; a call
\* that met none is not answered with an error of any other form.
FailuresAreWrapped ==
    /\ \A r \in Reqs :
          Done(r) =>
              /\ response[r].status \in {200, 500, 503}
              /\ Failures(r) # {} => response[r].status = 500
              /\ response[r].status = 500
                    => /\ response[r].detail[1] = "Prediction failed"
                       /\ \/ Failures(r) = {response[r].detail[2]}
                          \/ Failures(r) = {} /\ response[r].detail[2] = "Model not loaded"
    /\ \A i \in 1..Len(answers) :
          answers[i].raised # "none"
              => /\ answers[i].response.status = 500
                 /\ answers[i].response.detail[1] = "Prediction failed"
                 /\ answers[i].response.detail[2] =
                       IF answers[i].raised = "HTTPException(400)"
                       THEN "Invalid input shape" ELSE answers[i].raised

FailuresAreWrappedWitness ==
    \E r, q \in Reqs :
        /\ Done(r) /\ Failures(r) = {"inhomogeneous shape"} /\ response[r].status = 500
        /\ Done(q) /\ Failures(q) = {"engine error"} /\ response[q].status = 500

\* C18: a store passes the cache_ttl of its own request to SETEX, an integer
\* from 1 to 86400, every entry carries the TTL of a store under its key, and
\* an entry a lookup returned was written no more than its TTL seconds before.
TTLBound ==
    /\ \A r \in Reqs :
          /\ Has(log[r], "stored")
                => /\ obs[r].stored_ttl = request[r].cache_ttl
                   /\ obs[r].stored_ttl \in MinTTL..MaxTTL
          /\ Has(log[r], "hit") => obs[r].entry_age <= obs[r].entry_ttl
    /\ \A k \in Keys :
          cache[k] # Missing
              => /\ cache[k].ttl \in MinTTL..MaxTTL
                 /\ \E r \in Reqs : /\ Has(log[r], "stored") /\ cache_key[r] = k
                                    /\ request[r].cache_ttl = cache[k].ttl

TTLBoundWitness ==
    \E r, q \in Reqs :
        /\ Has(log[q], "stored") /\ request[q].cache_ttl = MinTTL
        /\ cache_key[r] = cache_key[q]
        /\ Has(log[r], "expired") /\ Has(log[r], "miss")
        /\ cache[cache_key[q]].ttl = MinTTL
        /\ clock.now - cache[cache_key[q]].written > MinTTL

\* What request validation is to accept: at least one row, all rows of one
\* length, and that length the expected feature count when it is known.
Acceptable(data, expected_features) ==
    /\ data # <<>>
    /\ Homogeneous(data)
    /\ expected_features # None
          => \A i \in 1..Len(data) : Len(data[i]) = expected_features

\* C19: validate_input_data returns True, and the conversion and shape check
\* of ModelManager.predict pass, exactly for the acceptable inputs.
RequestValidation ==
    \A i \in 1..Len(validations) :
        LET v == validations[i] IN
        /\ v.valid <=> Acceptable(v.data, v.expected_features)
        /\ v.error = "none" <=> Acceptable(v.data, v.expected_features)

\* With the expected feature count known, and for ModelManager.predict also
\* at least one row, both agree with Acceptable.
RequestValidationKnown ==
    \A i \in 1..Len(validations) :
        LET v == validations[i] IN
        /\ v.expected_features # None
              => /\ v.valid <=> Acceptable(v.data, v.expected_features)
                 /\ v.error = "none" <=> Acceptable(v.data, v.expected_features)
        /\ (v.expected_features = None /\ v.data # <<>>)
              => (v.error = "none" <=> Acceptable(v.data, v.expected_features))

\* C20: a request whose lookup hit is answered at once: its history is the
\* key, the lookup and the hit, the engine never ran for it, no store was
\* queued for it, and the prediction counter moved only for the requests that
\* reached PREDICTION_COUNT.inc().
HitGoesStraightToResponse ==
    /\ \A r \in Reqs :
          Has(log[r], "hit")
              => /\ Done(r) /\ response[r].status = 200
                 /\ log[r] = <<"cache_key", "lookup", "hit">>
                 /\ outputs[r] = <<>>
                 /\ task[r] = NoTask
    /\ PREDICTION_COUNT = Cardinality({ r \in Reqs : Has(log[r], "count") })

HitGoesStraightToResponseWitness ==
    \E r, q \in Reqs :
        /\ Has(log[r], "hit") /\ Done(r)
        /\ Has(log[q], "stored") /\ cache_key[q] = cache_key[r]
        /\ PREDICTION_COUNT = 1

\* The requests that are to leave the cache alone: use_cache is false, or
\* there is no Redis client.
Uncached(r) ==
    request[r] # <<>> /\ (~request[r].use_cache \/ redis_client = NoObject)

\* C21: a request with use_cache = false, and any request handled while there
\* is no Redis client, computes no key, looks nothing up and queues no store;
\* every entry in the cache was stored by a request with use_cache = true, and
\* whenever the cache changes, the store of such a request or the flush of a
\* reload changed it.
CacheUntouchedWithoutCaching ==
    /\ [](/\ \A r \in Reqs :
                Uncached(r)
                    => /\ cache_key[r] = NoKey /\ task[r] = NoTask
                       /\ \A e \in {"cache_key", "lookup", "hit", "miss", "cache_error",
                                    "add_task", "stored", "store_error"} :
                             ~Has(log[r], e)
          /\ redis_client = NoObject => cache = EmptyCache
          /\ \A k \in Keys :
                cache[k] # Missing
                    => \E r \in Reqs : /\ ~Uncached(r) /\ Has(log[r], "stored")
                                       /\ cache_key[r] = k)
    /\ [][cache' # cache
            => \/ rpc = "flush"
               \/ \E r \in Reqs : /\ ~Uncached(r)
                                  /\ task[r] # NoTask /\ task'[r] = NoTask
                                  /\ cache' = [cache EXCEPT ![cache_key[r]] = cache'[cache_key[r]]]
         ]_vars

CacheUntouchedWithoutCachingWitness ==
    \E r, q \in Reqs :
        /\ Done(r) /\ response[r].status = 200 /\ ~request[r].use_cache
        /\ Has(log[q], "stored") /\ cache[cache_key[q]] # Missing
        /\ request[q].data = request[r].data
        /\ redis_client # NoObject

\* The calls entered so far that add to counter c.
CallsTo(c) == Cardinality({ i \in DOMAIN calls : calls[i].counter = c })

\* C22: with the collector called from one place at a time, whenever no call
\* is under way the number of samples is prediction_counts + error_counts and
\* is the number of record_prediction calls, each counter is the number of
\* calls that add to it, and get_stats reports those counters; a step that
\* adds a sample is the entry of a record_prediction call and adds one; a step
\* that changes prediction_counts or error_counts adds one to the one counter
\* the record_prediction call under way names; a step that changes cache_hits
\* or cache_misses belongs to a record_cache_hit or record_cache_miss call.
CollectorAccounting ==
    /\ [](Quiescent
            => /\ Len(collector.prediction_times)
                    = collector.prediction_counts + collector.error_counts
               /\ Len(collector.prediction_times)
                    = CallsTo("prediction_counts") + CallsTo("error_counts")
               /\ \A c \in { call.counter : call \in CollectorCalls } :
                     collector[c] = CallsTo(c)
               /\ collector.prediction_times # <<>>
                    => /\ get_stats.total_predictions + get_stats.total_errors
                            = Len(collector.prediction_times)
                       /\ get_stats.cache_hits = CallsTo("cache_hits")
                       /\ get_stats.cache_misses = CallsTo("cache_misses"))
    /\ [][/\ collector'.prediction_times # collector.prediction_times
              => /\ Len(calls') = Len(calls) + 1
                 /\ calls'[Len(calls')].method = "record_prediction"
                 /\ \E d \in Durations :
                       collector'.prediction_times = Append(collector.prediction_times, d)
          /\ (Len(calls') = Len(calls) + 1 /\ calls'[Len(calls')].method = "record_prediction")
              => Len(collector'.prediction_times) = Len(collector.prediction_times) + 1
          /\ \A c \in { call.counter : call \in CollectorCalls } :
                collector'[c] # collector[c]
                    => /\ collector'[c] = collector[c] + 1
                       /\ \A o \in { call.counter : call \in CollectorCalls } \ {c} :
                             collector'[o] = collector[o]
                       /\ \E t \in Threads : /\ tpc[t] = "store" /\ tpc'[t] = "done"
                                             /\ ttarget[t] \in CollectorCalls
                                             /\ ttarget[t].counter = c
         ]_vars

CollectorAccountingWitness ==
    /\ Quiescent
    /\ Len(calls) = MaxCalls
    /\ collector.prediction_counts = 1
    /\ collector.error_counts = 1
    /\ collector.cache_hits = 1
    /\ Len(collector.prediction_times) = 2

\* C23: a predict call entered while no model is loaded ends in that step
\* with 503 "Model not loaded" and leaves the cache, the request's key, log,
\* outputs and queued task and the prediction counter as they were; a
\* predict_batch call entered while no model is loaded ends in that step with
\* 503 for the whole batch, with no result appended and no request slot
\* entered; the ONNX server's predict entered while MODEL_SESSION is None
\* answers 503 without calling the engine.  A 503 is answered in no other
\* case, and no result of a batch is the error marker of an unloaded model.
UnloadedModelGuard ==
    /\ [][/\ \A r \in Reqs :
                (pc[r] = "idle" /\ pc'[r] # "idle" /\ Unloaded)
                    => /\ pc'[r] = "done"
                       /\ response'[r] = HTTPException(503, "Model not loaded")
                       /\ UNCHANGED <<cache, cache_key, outputs, task, log, obs,
                                      PREDICTION_COUNT, collector, handleVars>>
          /\ (bpc = "idle" /\ bpc' # "idle" /\ Unloaded)
                => /\ bpc' = "done"
                   /\ bresponse' = HTTPException(503, "Model not loaded")
                   /\ results' = <<>>
                   /\ UNCHANGED <<pc, response, cache, cache_key, outputs, task, log,
                                  PREDICTION_COUNT, collector, handleVars>>
          /\ (oloop = NoCall /\ MODEL_SESSION = None /\ Len(answers') > Len(answers))
                => /\ answers'[Len(answers')].response
                         = HTTPException(503, "Model not loaded")
                   /\ answers'[Len(answers')].raised = "none"
                   /\ oloop' = NoCall
                   /\ MODEL_SESSION' = None
          /\ \A r \in Reqs :
                (response'[r].status = 503 /\ response[r].status # 503) => Unloaded
          /\ (bresponse'.status = 503 /\ bresponse.status # 503) => Unloaded
          /\ \A i \in DOMAIN answers' :
                (i \notin DOMAIN answers /\ answers'[i].response.status = 503)
                    => MODEL_SESSION = None
         ]_vars
    /\ [](/\ \A r \in Reqs :
                response[r].status = 503
                    => /\ log[r] = <<>> /\ cache_key[r] = NoKey
                       /\ task[r] = NoTask /\ outputs[r] = <<>>
          /\ bresponse.status = 503 => results = <<>>
          /\ \A i \in DOMAIN results : results[i] # ErrorMarker("Model not loaded"))

UnloadedModelGuardWitness ==
    /\ \A r \in Reqs : Done(r) /\ response[r].status = 503
    /\ model_manager = "ModelManager" /\ session = None /\ rresponse.status = 500
    /\ bpc = "done" /\ bresponse.status = 503 /\ Len(batch) = 2
    /\ \E i \in DOMAIN answers : answers[i].response.status = 503
    /\ PREDICTION_COUNT = 0
====
